---- MODULE Spec2Model ----
(***************************************************************************)
(* The reactor core of dasync/dasynq: EventLoop (run, processEvents, the   *)
(* attention / poll-wait lock), EventDispatch (the pending queue, the      *)
(* receive callbacks, issueDelete) composed with the pselect backend       *)
(* select_events.                                                          *)
(*                                                                         *)
(* Threads are either pollers (threads calling EventLoop::run) or          *)
(* mutators (threads calling deregisterSignal).  Every block of code that  *)
(* runs under one hold of a mutex is one action; code that runs without a  *)
(* lock is split at every access to shared state.                          *)
(***************************************************************************)
EXTENDS Integers, FiniteSets, Sequences, TLC

\* ------------------------------------------------------------------ bounds
NumPollers == 2      \* threads that call run()
NumSignals == 1      \* signal watchers (watcher i watches signal i)
NumFds == 1          \* fd watchers, read direction
NumChildren == 1     \* child watchers
MaxRemoved == 2      \* watchRemoved calls counted per watcher (saturating)

NULL == 0            \* nullptr
CRASH == 0 - 1       \* the outcome "the process is killed" of an invalid access

Pollers == 1..NumPollers
Mutators == (NumPollers + 1)..(NumPollers + NumSignals)
Threads == Pollers \cup Mutators

Signals == 1..NumSignals
Fds == 1..NumFds
SignalWatchers == 1..NumSignals
FdWatchers == (NumSignals + 1)..(NumSignals + NumFds)
ChildWatchers ==
    (NumSignals + NumFds + 1)..(NumSignals + NumFds + NumChildren)
Watchers == SignalWatchers \cup FdWatchers \cup ChildWatchers

\* enum class Rearm
Rearm == {"REARM", "DISARM", "REMOVE"}

\* BaseWatcher::watchType
watchType(w) ==
    IF w \in SignalWatchers THEN "SIGNAL"
    ELSE IF w \in FdWatchers THEN "FD" ELSE "CHILD"

\* PosixSignalWatcher::registerWatch: siginfo.set_signo(signo)
get_signo(w) == w

\* PosixFdWatcher::registerWith: watch_fd = fd
watch_fd(w) == w - NumSignals

\* the watcher a mutator thread deregisters (deregisterSignal's callBack)
callBack(m) == m - NumPollers

VARIABLES
    pc,             \* position of every thread
    crashed,        \* the process has been terminated
    attn_waitqueue, \* waitqueue: [head, tail]
    wait_waitqueue, \* waitqueue: [head, tail]
    node_next,      \* waitqueue_node::next of each thread's qnode
    lock,           \* EventDispatch::lock, its holder or NULL
    first,          \* EventDispatch::first
    next,           \* BaseWatcher::next
    active,         \* BaseWatcher::active
    deleteme,       \* BaseWatcher::deleteme
    removed,        \* number of watchRemoved calls on each watcher
    reg,            \* what the user has done with each watcher
    read_set,       \* select_events::read_set
    rd_udata,       \* select_events::rd_udata
    active_sigmask, \* select_events::active_sigmask
    sig_userdata,   \* select_events::sig_userdata
    prepared,       \* signals whose disposition is signal_handler
    siginfo_cap,    \* select_sig_capture_templ::siginfo_cap (its si_signo)
    child_watch,    \* child reaper: the watchers whose pid is still watched
    read_set_c,     \* pull_events: read_set_c of each poller
    sigmask,        \* pull_events: sigmask of each poller
    udata,          \* pull_events: udata of each poller
    was_signalled,  \* pull_events: was_signalled of each poller
    pqueue,         \* processEvents: pqueue of each poller
    ret_active,     \* processEvents: the local "active" of each poller
    rearmType,      \* processEvents: rearmType of each poller
    poll_at_start,  \* per mutator: a poller was inside pselect when it started
    hcallBack       \* per poller: the watcher its handler is deregistering

vars == <<pc, crashed, attn_waitqueue, wait_waitqueue, node_next, lock, first,
          next, active, deleteme, removed, reg, read_set, rd_udata,
          active_sigmask, sig_userdata, prepared, siginfo_cap, child_watch,
          read_set_c, sigmask, udata, was_signalled, pqueue, ret_active, rearmType,
          poll_at_start, hcallBack>>

lockVars == <<attn_waitqueue, wait_waitqueue, node_next>>
watcherVars == <<first, next, active, deleteme, removed>>
backendVars == <<read_set, rd_udata, active_sigmask, sig_userdata, prepared,
                 siginfo_cap, child_watch>>
pullVars == <<read_set_c, sigmask, udata, was_signalled>>
peVars == <<pqueue, ret_active, rearmType>>

\* ------------------------------------------------------------ construction
Init ==
    /\ pc = [t \in Threads |-> "idle"]
    /\ crashed = FALSE
    /\ attn_waitqueue = [head |-> NULL, tail |-> NULL]
    /\ wait_waitqueue = [head |-> NULL, tail |-> NULL]
    /\ node_next = [t \in Threads |-> NULL]
    /\ lock = NULL
    /\ first = NULL
    /\ next = [w \in Watchers |-> NULL]
    /\ active = [w \in Watchers |-> FALSE]
    /\ deleteme = [w \in Watchers |-> FALSE]
    /\ removed = [w \in Watchers |-> 0]
    /\ reg = [w \in Watchers |-> "new"]
    /\ read_set = {}
    /\ rd_udata = [f \in Fds |-> NULL]
    /\ active_sigmask = Signals
    /\ sig_userdata = [s \in Signals |-> NULL]
    /\ prepared = {}
    /\ siginfo_cap = NULL
    /\ child_watch = {}
    /\ read_set_c = [p \in Pollers |-> {}]
    /\ sigmask = [p \in Pollers |-> {}]
    /\ udata = [p \in Pollers |-> NULL]
    /\ was_signalled = [p \in Pollers |-> FALSE]
    /\ pqueue = [p \in Pollers |-> NULL]
    /\ ret_active = [p \in Pollers |-> FALSE]
    /\ rearmType = [p \in Pollers |-> "DISARM"]
    /\ poll_at_start = [m \in Mutators |-> FALSE]
    /\ hcallBack = [p \in Pollers |-> NULL]

\* ---------------------------------------------------------------- waitqueue
\* waitqueue::getHead
getHead(q) == q.head

\* waitqueue::queue, its effect on the queue object: tail is never assigned,
\* so the else branch is the one taken.
queue(q, node) == IF q.tail /= NULL THEN q ELSE [q EXCEPT !.head = node]

\* waitqueue::queue, its effect on the nodes' next links (tail->next = node)
queue_link(q, node, nn) ==
    IF q.tail /= NULL THEN [nn EXCEPT ![q.tail] = node] ELSE nn

\* waitqueue::unqueue: head = head->next; return head.  The set of values
\* the call can leave in head: on an empty queue it reads nullptr->next, and
\* then the process is killed or the load yields some pointer value.
unqueue(q, nn) ==
    IF q.head /= NULL THEN {nn[q.head]} ELSE {CRASH, NULL} \cup Threads

\* the construction of a local "waitqueue_node<T_Mutex> qnode"
waitqueue_node(t, nn) == [nn EXCEPT ![t] = NULL]

\* ------------------------------------------------- attention/poll-wait lock
\* EventLoop::getAttnLock, up to the first test of the wait loop.  The call
\* of interruptWait (taken when the node is not the head) changes no state of
\* this model: select_events has no such operation.
getAttnLock(t) ==
    /\ attn_waitqueue' = queue(attn_waitqueue, t)
    /\ node_next' = queue_link(attn_waitqueue, t, waitqueue_node(t, node_next))
    /\ UNCHANGED wait_waitqueue

\* EventLoop::getPollwaitLock, up to the first test of the wait loop
getPollwaitLock(t) ==
    /\ IF getHead(attn_waitqueue) = NULL
       THEN /\ attn_waitqueue' = queue(attn_waitqueue, t)
            /\ node_next' =
                 queue_link(attn_waitqueue, t, waitqueue_node(t, node_next))
            /\ UNCHANGED wait_waitqueue
       ELSE /\ wait_waitqueue' = queue(wait_waitqueue, t)
            /\ node_next' =
                 queue_link(wait_waitqueue, t, waitqueue_node(t, node_next))
            /\ UNCHANGED attn_waitqueue

\* releaseLock without its else branch: the head of the wait queue is not
\* moved to the attention queue
releaseLockWith_nomove(nhead) ==
    /\ attn_waitqueue' = [attn_waitqueue EXCEPT !.head = nhead]
    /\ UNCHANGED <<node_next, wait_waitqueue>>

\* EventLoop::releaseLock once unqueue has produced nhead
releaseLockWith(nhead) ==
    LET attn1 == [attn_waitqueue EXCEPT !.head = nhead]
        whead == getHead(wait_waitqueue)
    IN  /\ IF nhead /= NULL
           THEN /\ attn_waitqueue' = attn1
                /\ UNCHANGED node_next
           ELSE IF whead /= NULL
                THEN /\ attn_waitqueue' = queue(attn1, whead)
                     /\ node_next' = queue_link(attn1, whead, node_next)
                ELSE /\ attn_waitqueue' = attn1
                     /\ UNCHANGED node_next
        /\ UNCHANGED wait_waitqueue

\* EventLoop::releaseLock; o is what attn_waitqueue.unqueue() does
releaseLock(o) ==
    IF o = CRASH
    THEN /\ crashed' = TRUE
         /\ UNCHANGED lockVars
    ELSE /\ releaseLockWith(o)
         /\ UNCHANGED crashed

\* ------------------------------------------------------------ EventDispatch
\* BaseWatcher::watchRemoved, counted
watchRemoved(rem, w) ==
    [rem EXCEPT ![w] = IF @ < MaxRemoved THEN @ + 1 ELSE MaxRemoved]

\* EventDispatch::receiveSignal / receiveFdEvent on the queue state
\* q = [first, next, active]: mark active, push at the front.
receive(q, w) ==
    [first |-> w,
     next |-> [q.next EXCEPT ![w] = q.first],
     active |-> [q.active EXCEPT ![w] = TRUE]]

\* EventDispatch::issueDelete
issueDelete(w) ==
    /\ IF active[w]
       THEN /\ deleteme' = [deleteme EXCEPT ![w] = TRUE]
            /\ UNCHANGED removed
       ELSE /\ removed' = watchRemoved(removed, w)
            /\ UNCHANGED deleteme
    /\ UNCHANGED <<first, next, active>>

\* ------------------------------------------------------------ select_events
\* select_events::add_signal_watch (add_signal_watch_nolock, prepare_signal)
add_signal_watch(signo, userdata) ==
    /\ sig_userdata' = [sig_userdata EXCEPT ![signo] = userdata]
    /\ active_sigmask' = active_sigmask \ {signo}
    /\ prepared' = prepared \cup {signo}
    /\ UNCHANGED <<read_set, rd_udata, siginfo_cap, child_watch>>

\* select_events::remove_signal_watch_nolock (unprep_signal)
remove_signal_watch_nolock(signo, sud, asm, prep) ==
    [sig_userdata |-> [sud EXCEPT ![signo] = NULL],
     active_sigmask |-> asm \cup {signo},
     prepared |-> prep \ {signo}]

\* select_events::rearm_signal_watch_nolock
rearm_signal_watch_nolock(signo, userdata, sud, asm, prep) ==
    [sig_userdata |-> [sud EXCEPT ![signo] = userdata],
     active_sigmask |-> asm \ {signo},
     prepared |-> prep]

\* select_events::add_fd_watch with IN_EVENTS
add_fd_watch(fd, userdata) ==
    /\ read_set' = read_set \cup {fd}
    /\ rd_udata' = [rd_udata EXCEPT ![fd] = userdata]
    /\ UNCHANGED <<active_sigmask, sig_userdata, prepared, siginfo_cap,
                   child_watch>>

\* select_events::add_fd_watch with IN_EVENTS when rd_udata.resize throws
\* std::bad_alloc: FD_SET has been done, nothing after it
add_fd_watch_throws(fd) ==
    /\ read_set' = read_set \cup {fd}
    /\ UNCHANGED <<rd_udata, active_sigmask, sig_userdata, prepared,
                   siginfo_cap, child_watch>>

\* select_events::max_fd: 0 at first, then the largest fd a completed
\* add_fd_watch was given
max_fd ==
    LET added == {f \in Fds : rd_udata[f] /= NULL}
    IN  IF added = {} THEN 0
        ELSE CHOOSE f \in added : \A g \in added : g <= f

\* select_events::enable_fd_watch_nolock with IN_EVENTS
enable_fd_watch_nolock(fd, rs) == rs \cup {fd}

\* select_events::remove_fd_watch_nolock with IN_EVENTS
remove_fd_watch_nolock(fd, rs) == rs \ {fd}

\* select_events::process_events: the fds of rset in ascending order, each
\* reported through receive_fd_event and cleared from read_set.
\* st = [first, next, active, read_set].
RECURSIVE process_events(_, _, _)
process_events(i, rset, st) ==
    IF i > NumFds THEN st
    ELSE IF i \in rset
         THEN LET q == receive([first |-> st.first, next |-> st.next,
                                active |-> st.active], rd_udata[i])
              IN  process_events(i + 1, rset,
                     [first |-> q.first, next |-> q.next, active |-> q.active,
                      read_set |-> st.read_set \ {i}])
         ELSE process_events(i + 1, rset, st)

\* ------------------------------------------------------------- processEvents
\* The first loop of processEvents, from node q on.
\* st = [pqueue, prev, next, active, removed, any]; prev is never advanced by
\* the source.  fuel bounds the walk: a walk that has not reached nullptr
\* when it runs out is in a cycle of next links and never ends.
RECURSIVE exciseLoop(_, _, _)
exciseLoop(q, st, fuel) ==
    IF q = NULL \/ fuel = 0 THEN [st EXCEPT !.q = q]
    ELSE IF deleteme[q]
         THEN LET st1 == [st EXCEPT !.removed = watchRemoved(@, q)]
                  st2 == IF st1.prev /= NULL
                         THEN [st1 EXCEPT !.next[st1.prev] = st1.next[q]]
                         ELSE [st1 EXCEPT !.pqueue = st1.next[q]]
              IN  exciseLoop(st2.next[q], st2, fuel - 1)
         ELSE exciseLoop(st.next[q],
                         [st EXCEPT !.active[q] = TRUE, !.any = TRUE],
                         fuel - 1)

\* the walk over the detached list, started as processEvents starts it
excise ==
    exciseLoop(first,
               [pqueue |-> first, prev |-> NULL, next |-> next,
                active |-> active, removed |-> removed, any |-> FALSE,
                q |-> NULL],
               MaxRemoved * Cardinality(Watchers))

\* run with its loop condition inverted: while (processEvents())
runAfter_inverted(act) == IF act THEN "getpoll" ELSE "idle"

\* EventLoop::run, where a poller goes once processEvents has no node left:
\* run's loop ends when processEvents returns true.
runAfter(act) == IF act THEN "idle" ELSE "getpoll"

\* processEvents, where a poller goes with pqueue = pq
peNext(pq, act) == IF pq /= NULL THEN "handler" ELSE runAfter(act)

\* processEvents, the first switch: what rearmType can be after the handler
\* of w; child watches automatically remove.
handlerRearm(w) == IF watchType(w) = "CHILD" THEN {"REMOVE"} ELSE Rearm

\* processEvents, the second switch: EventLoop::processSignalRearm /
\* processFdRearm on b = [sig_userdata, active_sigmask, prepared, read_set];
\* no backend call for a child watcher
processRearm(w, rt, b) ==
    IF watchType(w) = "SIGNAL"
    THEN LET r == IF rt = "REARM"
                  THEN rearm_signal_watch_nolock(get_signo(w), w,
                          b.sig_userdata, b.active_sigmask, b.prepared)
                  ELSE IF rt = "REMOVE"
                  THEN remove_signal_watch_nolock(get_signo(w),
                          b.sig_userdata, b.active_sigmask, b.prepared)
                  ELSE [sig_userdata |-> b.sig_userdata,
                        active_sigmask |-> b.active_sigmask,
                        prepared |-> b.prepared]
         IN  [sig_userdata |-> r.sig_userdata,
              active_sigmask |-> r.active_sigmask,
              prepared |-> r.prepared, read_set |-> b.read_set]
    ELSE IF watchType(w) = "CHILD" THEN b
    ELSE IF rt = "REARM"
         THEN [b EXCEPT !.read_set = enable_fd_watch_nolock(watch_fd(w), @)]
         ELSE IF rt = "REMOVE"
         THEN [b EXCEPT !.read_set = remove_fd_watch_nolock(watch_fd(w), @)]
         ELSE b

\* ------------------------------------------------------------------ actions
\* the user registers a signal watcher: registerWatch, registerSignal
RegisterSignal(w) ==
    /\ ~crashed /\ lock = NULL
    /\ w \in SignalWatchers /\ reg[w] = "new"
    /\ reg' = [reg EXCEPT ![w] = "reg"]
    /\ add_signal_watch(get_signo(w), w)
    /\ UNCHANGED <<pc, crashed, lockVars, lock, watcherVars, pullVars, peVars,
                   poll_at_start,
                   hcallBack>>

\* the user registers an fd watcher: registerWith, registerFd
RegisterFd(w) ==
    /\ ~crashed
    /\ w \in FdWatchers /\ reg[w] = "new"
    /\ reg' = [reg EXCEPT ![w] = "reg"]
    /\ add_fd_watch(watch_fd(w), w)
    /\ UNCHANGED <<pc, crashed, lockVars, lock, watcherVars, pullVars, peVars,
                   poll_at_start,
                   hcallBack>>

\* the user registers a child watcher: registerWith, registerChild; the
\* child reaper's addChildWatch records the pid with its userdata
RegisterChild(w) ==
    /\ ~crashed /\ lock = NULL
    /\ w \in ChildWatchers /\ reg[w] = "new"
    /\ reg' = [reg EXCEPT ![w] = "reg"]
    /\ child_watch' = child_watch \cup {w}
    /\ UNCHANGED <<pc, crashed, lockVars, lock, watcherVars, read_set,
                   rd_udata, active_sigmask, sig_userdata, prepared,
                   siginfo_cap, pullVars, peVars, poll_at_start,
                   hcallBack>>

\* the user registers an fd watcher and add_fd_watch fails: the vector of
\* userdata has to grow (fd >= rd_udata.size()) and resize throws; the
\* exception reaches the caller of registerWith
RegisterFdFails(w) ==
    /\ ~crashed
    /\ w \in FdWatchers /\ reg[w] = "new"
    /\ watch_fd(w) > max_fd
    /\ reg' = [reg EXCEPT ![w] = "failed"]
    /\ add_fd_watch_throws(watch_fd(w))
    /\ UNCHANGED <<pc, crashed, lockVars, lock, watcherVars, pullVars, peVars,
                   poll_at_start,
                   hcallBack>>

\* a thread calls run()
RunCall(p) ==
    /\ ~crashed
    /\ pc[p] = "idle"
    /\ pc' = [pc EXCEPT ![p] = "run"]
    /\ ret_active' = [ret_active EXCEPT ![p] = FALSE]
    /\ UNCHANGED <<crashed, lockVars, lock, watcherVars, reg, backendVars,
                   pullVars, pqueue, rearmType, poll_at_start,
                   hcallBack>>

\* processEvents without the ed.lock.unlock() before its second loop: the
\* handlers are invoked with the dispatch lock held
ProcessEventsBegin_locked(p) ==
    /\ ~crashed /\ lock = NULL
    /\ pc[p] = "run"
    /\ LET st == excise
       IN  /\ first' = NULL
           /\ next' = st.next
           /\ active' = st.active
           /\ removed' = st.removed
           /\ IF st.q /= NULL
              THEN \* the loop never ends, the dispatch lock stays held
                   /\ lock' = p
                   /\ pc' = [pc EXCEPT ![p] = "hung"]
                   /\ UNCHANGED peVars
              ELSE /\ lock' = IF st.pqueue /= NULL THEN p ELSE lock
                   /\ pqueue' = [pqueue EXCEPT ![p] = st.pqueue]
                   /\ ret_active' = [ret_active EXCEPT ![p] = st.any]
                   /\ pc' = [pc EXCEPT ![p] = peNext(st.pqueue, st.any)]
                   /\ UNCHANGED rearmType
    /\ UNCHANGED <<crashed, lockVars, deleteme, reg, backendVars, pullVars,
                   poll_at_start,
                   hcallBack>>

\* processEvents, its first critical section: detach the list, excise the
\* deleteme nodes, mark the others active.
ProcessEventsBegin(p) ==
    /\ ~crashed /\ lock = NULL
    /\ pc[p] = "run"
    /\ LET st == excise
       IN  /\ first' = NULL
           /\ next' = st.next
           /\ active' = st.active
           /\ removed' = st.removed
           /\ IF st.q /= NULL
              THEN \* the loop never ends, the dispatch lock stays held
                   /\ lock' = p
                   /\ pc' = [pc EXCEPT ![p] = "hung"]
                   /\ UNCHANGED peVars
              ELSE /\ lock' = lock
                   /\ pqueue' = [pqueue EXCEPT ![p] = st.pqueue]
                   /\ ret_active' = [ret_active EXCEPT ![p] = st.any]
                   /\ pc' = [pc EXCEPT ![p] = peNext(st.pqueue, st.any)]
                   /\ UNCHANGED rearmType
    /\ UNCHANGED <<crashed, lockVars, deleteme, reg, backendVars, pullVars,
                   poll_at_start,
                   hcallBack>>

\* the handler of pqueue (gotSignal / gotEvent / gotTermStat) returns, and
\* processEvents has r in rearmType
HandlerReturn(p, r) ==
    /\ ~crashed
    /\ pc[p] = "handler"
    /\ r \in handlerRearm(pqueue[p])
    /\ rearmType' = [rearmType EXCEPT ![p] = r]
    /\ pc' = [pc EXCEPT ![p] = "fin"]
    /\ UNCHANGED <<crashed, lockVars, lock, watcherVars, reg, backendVars,
                   pullVars, pqueue, ret_active, poll_at_start,
                   hcallBack>>

\* processEvents, the critical section after the handler
ProcessEventsRearm(p) ==
    /\ ~crashed /\ lock = NULL
    /\ pc[p] = "fin"
    /\ LET w == pqueue[p]
           rt == IF deleteme[w] THEN "REMOVE" ELSE rearmType[p]
           b == processRearm(w, rt,
                   [sig_userdata |-> sig_userdata,
                    active_sigmask |-> active_sigmask,
                    prepared |-> prepared, read_set |-> read_set])
       IN  /\ active' = [active EXCEPT ![w] = FALSE]
           /\ sig_userdata' = b.sig_userdata
           /\ active_sigmask' = b.active_sigmask
           /\ prepared' = b.prepared
           /\ read_set' = b.read_set
           /\ removed' = IF rt = "REMOVE" THEN watchRemoved(removed, w)
                         ELSE removed
           /\ rearmType' = [rearmType EXCEPT ![p] = rt]
    /\ pc' = [pc EXCEPT ![p] = "adv"]
    /\ UNCHANGED <<crashed, lockVars, lock, first, next, deleteme, reg,
                   rd_udata, siginfo_cap, child_watch, pullVars, pqueue,
                   ret_active, poll_at_start,
                   hcallBack>>

\* processEvents, after the unlock: pqueue = pqueue->next (the end of the
\* scope of rearmType), and the return to run when that is nullptr
ProcessEventsAdvance(p) ==
    /\ ~crashed
    /\ pc[p] = "adv"
    /\ LET pq == next[pqueue[p]]
       IN  /\ pqueue' = [pqueue EXCEPT ![p] = pq]
           /\ pc' = [pc EXCEPT ![p] = peNext(pq, ret_active[p])]
    /\ rearmType' = [rearmType EXCEPT ![p] = "DISARM"]
    /\ UNCHANGED <<crashed, lockVars, lock, watcherVars, reg, backendVars,
                   pullVars, ret_active, poll_at_start,
                   hcallBack>>

\* run: getPollwaitLock(qnode)
GetPollwaitLock(p) ==
    /\ ~crashed
    /\ pc[p] = "getpoll"
    /\ getPollwaitLock(p)
    /\ pc' = [pc EXCEPT ![p] = IF getHead(attn_waitqueue') = p
                               THEN "pull" ELSE "wait"]
    /\ UNCHANGED <<crashed, lock, watcherVars, reg, backendVars, pullVars,
                   peVars, poll_at_start,
                   hcallBack>>

\* the wait loop of getAttnLock / getPollwaitLock ends: the node is the head
WaitHead(t) ==
    /\ ~crashed
    /\ pc[t] = "wait"
    /\ getHead(attn_waitqueue) = t
    /\ pc' = [pc EXCEPT ![t] = IF t \in Pollers THEN "pull" ELSE "issue"]
    /\ UNCHANGED <<crashed, lockVars, lock, watcherVars, reg, backendVars,
                   pullVars, peVars, poll_at_start,
                   hcallBack>>

\* releaseLock(qnode), by a poller after pullEvents or by a mutator after
\* issueDelete
ReleaseLock(t) ==
    /\ ~crashed
    /\ pc[t] = "release"
    /\ \E o \in unqueue(attn_waitqueue, node_next) : releaseLock(o)
    /\ pc' = [pc EXCEPT ![t] = IF crashed' THEN @
                               ELSE IF t \in Pollers THEN "run" ELSE "done"]
    /\ UNCHANGED <<lock, watcherVars, reg, backendVars, pullVars, peVars,
                   poll_at_start,
                   hcallBack>>

\* pull_events up to the call of pselect: the copies of the armed sets
PullEvents(p) ==
    /\ ~crashed
    /\ pc[p] = "pull"
    /\ read_set_c' = [read_set_c EXCEPT ![p] = read_set]
    /\ sigmask' = [sigmask EXCEPT ![p] = active_sigmask]
    /\ was_signalled' = [was_signalled EXCEPT ![p] = FALSE]
    /\ pc' = [pc EXCEPT ![p] = "pselect"]
    /\ UNCHANGED <<crashed, lockVars, lock, watcherVars, reg, backendVars,
                   udata, peVars, poll_at_start,
                   hcallBack>>

\* signal s, unblocked by pselect, is caught: signal_handler stores the
\* siginfo and jumps back into pull_events
SignalCaught(p, s) ==
    /\ ~crashed
    /\ pc[p] = "pselect"
    /\ s \notin sigmask[p] /\ s \in prepared
    /\ siginfo_cap' = s
    /\ pc' = [pc EXCEPT ![p] = "siglookup"]
    /\ UNCHANGED <<crashed, lockVars, lock, watcherVars, reg, read_set,
                   rd_udata, active_sigmask, sig_userdata, prepared,
                   child_watch, pullVars, peVars, poll_at_start,
                   hcallBack>>

\* signal s, unblocked by pselect, arrives after unprep_signal has reset its
\* disposition: the default action ends the process
SignalDefault(p, s) ==
    /\ ~crashed
    /\ pc[p] = "pselect"
    /\ s \notin sigmask[p] /\ s \notin prepared
    /\ crashed' = TRUE
    /\ UNCHANGED <<pc, lockVars, lock, watcherVars, reg, backendVars, pullVars,
                   peVars, poll_at_start,
                   hcallBack>>

\* pull_events after the jump: udata = sig_userdata[sinfo->si_signo]
SigLookup(p) ==
    /\ ~crashed
    /\ pc[p] = "siglookup"
    /\ udata' = [udata EXCEPT ![p] = sig_userdata[siginfo_cap]]
    /\ pc' = [pc EXCEPT ![p] = "sigrecv"]
    /\ UNCHANGED <<crashed, lockVars, lock, watcherVars, reg, backendVars,
                   read_set_c, sigmask, was_signalled, peVars, poll_at_start,
                   hcallBack>>

\* pull_events: receive_signal for a non-null udata, then the signal is
\* masked again; no lock is taken on this path.  receiveSignal has no result:
\* the watch is disabled after every delivery.
SigReceive(p) ==
    /\ ~crashed
    /\ pc[p] = "sigrecv"
    /\ IF udata[p] /= NULL
       THEN LET q == receive([first |-> first, next |-> next,
                              active |-> active], udata[p])
            IN  /\ first' = q.first
                /\ next' = q.next
                /\ active' = q.active
                /\ sigmask' = [sigmask EXCEPT ![p] = @ \cup {siginfo_cap}]
                /\ active_sigmask' = active_sigmask \cup {siginfo_cap}
       ELSE UNCHANGED <<first, next, active, sigmask, active_sigmask>>
    /\ was_signalled' = [was_signalled EXCEPT ![p] = TRUE]
    /\ udata' = [udata EXCEPT ![p] = NULL]
    /\ pc' = [pc EXCEPT ![p] = "pselect"]
    /\ UNCHANGED <<crashed, lockVars, lock, deleteme, removed, reg, read_set,
                   rd_udata, sig_userdata, prepared, siginfo_cap, child_watch,
                   read_set_c, peVars, poll_at_start,
                   hcallBack>>

\* pselect, called with nfds = max_fd + 1, returns r > 0 with the fds of rset
\* ready: process_events, return
SelectEvents(p, rset) ==
    /\ ~crashed /\ lock = NULL
    /\ pc[p] = "pselect"
    /\ rset /= {} /\ rset \subseteq read_set_c[p]
    /\ \A i \in rset : i <= max_fd /\ rd_udata[i] /= NULL
    /\ LET st == process_events(1, rset,
                    [first |-> first, next |-> next, active |-> active,
                     read_set |-> read_set])
       IN  /\ first' = st.first
           /\ next' = st.next
           /\ active' = st.active
           /\ read_set' = st.read_set
    /\ read_set_c' = [read_set_c EXCEPT ![p] = {}]
    /\ sigmask' = [sigmask EXCEPT ![p] = {}]
    /\ was_signalled' = [was_signalled EXCEPT ![p] = FALSE]
    /\ pc' = [pc EXCEPT ![p] = "release"]
    /\ UNCHANGED <<crashed, lockVars, lock, deleteme, removed, reg, rd_udata,
                   active_sigmask, sig_userdata, prepared, siginfo_cap,
                   child_watch, udata, peVars, poll_at_start,
                   hcallBack>>

\* the child watched by w has terminated: the child reaper of the polling
\* thread collects its status, which a process gives once, and reports it
\* through receiveChildStat under the dispatch lock; pull_events goes on to
\* deliver what else is ready, without blocking again
ChildStat(p, w) ==
    /\ ~crashed /\ lock = NULL
    /\ pc[p] = "pselect"
    /\ w \in child_watch
    /\ child_watch' = child_watch \ {w}
    /\ LET q == receive([first |-> first, next |-> next, active |-> active],
                        w)
       IN  /\ first' = q.first
           /\ next' = q.next
           /\ active' = q.active
    /\ was_signalled' = [was_signalled EXCEPT ![p] = TRUE]
    /\ UNCHANGED <<pc, crashed, lockVars, lock, deleteme, removed, reg,
                   read_set, rd_udata, active_sigmask, sig_userdata, prepared,
                   siginfo_cap, read_set_c, sigmask, udata, peVars,
                   poll_at_start,
                   hcallBack>>

\* pselect returns 0 or -1 (no fd ready, or interrupted): pull_events returns
SelectNone(p) ==
    /\ ~crashed
    /\ pc[p] = "pselect"
    /\ read_set_c' = [read_set_c EXCEPT ![p] = {}]
    /\ sigmask' = [sigmask EXCEPT ![p] = {}]
    /\ was_signalled' = [was_signalled EXCEPT ![p] = FALSE]
    /\ pc' = [pc EXCEPT ![p] = "release"]
    /\ UNCHANGED <<crashed, lockVars, lock, watcherVars, reg, backendVars,
                   udata, peVars, poll_at_start,
                   hcallBack>>

\* deregisterSignal, its first statement: removeSignalWatch(signo)
DeregisterSignal(m) ==
    /\ ~crashed /\ lock = NULL
    /\ pc[m] = "idle"
    /\ reg[callBack(m)] = "reg" /\ removed[callBack(m)] = 0
    /\ LET r == remove_signal_watch_nolock(get_signo(callBack(m)),
                   sig_userdata, active_sigmask, prepared)
       IN  /\ sig_userdata' = r.sig_userdata
           /\ active_sigmask' = r.active_sigmask
           /\ prepared' = r.prepared
    /\ reg' = [reg EXCEPT ![callBack(m)] = "dereg"]
    /\ poll_at_start' = [poll_at_start EXCEPT
                           ![m] = \E p \in Pollers : pc[p] = "pselect"]
    /\ pc' = [pc EXCEPT ![m] = "getattn"]
    /\ UNCHANGED <<crashed, lockVars, lock, watcherVars, read_set, rd_udata,
                   siginfo_cap, child_watch, pullVars, peVars, hcallBack>>

\* deregisterSignal: getAttnLock(qnode)
GetAttnLock(m) ==
    /\ ~crashed
    /\ pc[m] = "getattn"
    /\ getAttnLock(m)
    /\ pc' = [pc EXCEPT ![m] = IF getHead(attn_waitqueue') = m
                               THEN "issue" ELSE "wait"]
    /\ UNCHANGED <<crashed, lock, watcherVars, reg, backendVars, pullVars,
                   peVars, poll_at_start,
                   hcallBack>>

\* deregisterSignal: ed.issueDelete(callBack), its lock.lock()
IssueDeleteLock(m) ==
    /\ ~crashed /\ lock = NULL
    /\ pc[m] = "issue"
    /\ lock' = m
    /\ pc' = [pc EXCEPT ![m] = "issuelk"]
    /\ UNCHANGED <<crashed, lockVars, watcherVars, reg, backendVars, pullVars,
                   peVars, poll_at_start,
                   hcallBack>>

\* deregisterSignal: ed.issueDelete(callBack), from the test of active to
\* lock.unlock()
IssueDelete(m) ==
    /\ ~crashed /\ lock = m
    /\ pc[m] = "issuelk"
    /\ issueDelete(callBack(m))
    /\ lock' = NULL
    /\ pc' = [pc EXCEPT ![m] = "release"]
    /\ UNCHANGED <<crashed, lockVars, reg, backendVars, pullVars, peVars,
                   poll_at_start,
                   hcallBack>>

\* ----------------------------------------------- deregistration in a handler
\* the handler that poller p is in calls deregisterWatch on signal watcher w
\* (its own watcher or another): deregisterSignal, its first statement
HandlerDeregisterSignal(p, w) ==
    /\ ~crashed /\ lock = NULL
    /\ pc[p] = "handler"
    /\ w \in SignalWatchers /\ reg[w] = "reg" /\ removed[w] = 0
    /\ LET r == remove_signal_watch_nolock(get_signo(w),
                   sig_userdata, active_sigmask, prepared)
       IN  /\ sig_userdata' = r.sig_userdata
           /\ active_sigmask' = r.active_sigmask
           /\ prepared' = r.prepared
    /\ reg' = [reg EXCEPT ![w] = "dereg"]
    /\ hcallBack' = [hcallBack EXCEPT ![p] = w]
    /\ pc' = [pc EXCEPT ![p] = "h_getattn"]
    /\ UNCHANGED <<crashed, lockVars, lock, watcherVars, read_set, rd_udata,
                   siginfo_cap, child_watch, pullVars, peVars, poll_at_start>>

\* the handler's deregisterSignal: getAttnLock(qnode)
HandlerGetAttnLock(p) ==
    /\ ~crashed
    /\ pc[p] = "h_getattn"
    /\ getAttnLock(p)
    /\ pc' = [pc EXCEPT ![p] = IF getHead(attn_waitqueue') = p
                               THEN "h_issue" ELSE "h_wait"]
    /\ UNCHANGED <<crashed, lock, watcherVars, reg, backendVars, pullVars,
                   peVars, poll_at_start, hcallBack>>

\* the handler's deregisterSignal: the end of the wait loop of getAttnLock
\* if it was entered, then ed.issueDelete(callBack), its lock.lock()
HandlerIssueDeleteLock(p) ==
    /\ ~crashed /\ lock = NULL
    /\ \/ pc[p] = "h_issue"
       \/ pc[p] = "h_wait" /\ getHead(attn_waitqueue) = p
    /\ lock' = p
    /\ pc' = [pc EXCEPT ![p] = "h_issuelk"]
    /\ UNCHANGED <<crashed, lockVars, watcherVars, reg, backendVars, pullVars,
                   peVars, poll_at_start, hcallBack>>

\* the handler's deregisterSignal: ed.issueDelete(callBack), from the test
\* of active to lock.unlock()
HandlerIssueDelete(p) ==
    /\ ~crashed /\ lock = p
    /\ pc[p] = "h_issuelk"
    /\ issueDelete(hcallBack[p])
    /\ lock' = NULL
    /\ pc' = [pc EXCEPT ![p] = "h_release"]
    /\ UNCHANGED <<crashed, lockVars, reg, backendVars, pullVars, peVars,
                   poll_at_start, hcallBack>>

\* the handler's deregisterSignal: releaseLock(qnode), and the return into
\* the handler
HandlerReleaseLock(p) ==
    /\ ~crashed
    /\ pc[p] = "h_release"
    /\ \E o \in unqueue(attn_waitqueue, node_next) : releaseLock(o)
    /\ pc' = [pc EXCEPT ![p] = IF crashed' THEN @ ELSE "handler"]
    /\ hcallBack' = [hcallBack EXCEPT ![p] = IF crashed' THEN @ ELSE NULL]
    /\ UNCHANGED <<lock, watcherVars, reg, backendVars, pullVars, peVars,
                   poll_at_start>>

\* ------------------------------------------------------------ specification
Next ==
    \/ \E w \in SignalWatchers : RegisterSignal(w)
    \/ \E w \in FdWatchers : RegisterFd(w)
    \/ \E p \in Pollers : RunCall(p)
    \/ \E p \in Pollers : ProcessEventsBegin(p)
    \/ \E p \in Pollers, r \in Rearm : HandlerReturn(p, r)
    \/ \E p \in Pollers : ProcessEventsRearm(p)
    \/ \E p \in Pollers : ProcessEventsAdvance(p)
    \/ \E p \in Pollers : GetPollwaitLock(p)
    \/ \E t \in Threads : WaitHead(t)
    \/ \E t \in Threads : ReleaseLock(t)
    \/ \E p \in Pollers : PullEvents(p)
    \/ \E p \in Pollers, s \in Signals : SignalCaught(p, s)
    \/ \E p \in Pollers, s \in Signals : SignalDefault(p, s)
    \/ \E p \in Pollers : SigLookup(p)
    \/ \E p \in Pollers : SigReceive(p)
    \/ \E p \in Pollers, rset \in SUBSET Fds : SelectEvents(p, rset)
    \/ \E p \in Pollers : SelectNone(p)
    \/ \E m \in Mutators : DeregisterSignal(m)
    \/ \E m \in Mutators : GetAttnLock(m)
    \/ \E m \in Mutators : IssueDeleteLock(m)
    \/ \E m \in Mutators : IssueDelete(m)

\* a program that watches signals and fds
Spec == Init /\ [][Next]_vars

\* a program that watches signals and child processes
ChildNext ==
    \/ \E w \in SignalWatchers : RegisterSignal(w)
    \/ \E w \in ChildWatchers : RegisterChild(w)
    \/ \E p \in Pollers : RunCall(p)
    \/ \E p \in Pollers : ProcessEventsBegin(p)
    \/ \E p \in Pollers, r \in Rearm : HandlerReturn(p, r)
    \/ \E p \in Pollers : ProcessEventsRearm(p)
    \/ \E p \in Pollers : ProcessEventsAdvance(p)
    \/ \E p \in Pollers : GetPollwaitLock(p)
    \/ \E t \in Threads : WaitHead(t)
    \/ \E t \in Threads : ReleaseLock(t)
    \/ \E p \in Pollers : PullEvents(p)
    \/ \E p \in Pollers, s \in Signals : SignalCaught(p, s)
    \/ \E p \in Pollers, s \in Signals : SignalDefault(p, s)
    \/ \E p \in Pollers : SigLookup(p)
    \/ \E p \in Pollers : SigReceive(p)
    \/ \E p \in Pollers, w \in ChildWatchers : ChildStat(p, w)
    \/ \E p \in Pollers : SelectNone(p)
    \/ \E m \in Mutators : DeregisterSignal(m)
    \/ \E m \in Mutators : GetAttnLock(m)
    \/ \E m \in Mutators : IssueDeleteLock(m)
    \/ \E m \in Mutators : IssueDelete(m)

ChildSpec == Init /\ [][ChildNext]_vars

\* the pollers alone, with handlers that call deregisterWatch
HandlerNext ==
    \/ \E w \in SignalWatchers : RegisterSignal(w)
    \/ \E w \in FdWatchers : RegisterFd(w)
    \/ \E p \in Pollers : RunCall(p)
    \/ \E p \in Pollers : ProcessEventsBegin(p)
    \/ \E p \in Pollers, r \in Rearm : HandlerReturn(p, r)
    \/ \E p \in Pollers : ProcessEventsRearm(p)
    \/ \E p \in Pollers : ProcessEventsAdvance(p)
    \/ \E p \in Pollers : GetPollwaitLock(p)
    \/ \E t \in Threads : WaitHead(t)
    \/ \E t \in Threads : ReleaseLock(t)
    \/ \E p \in Pollers : PullEvents(p)
    \/ \E p \in Pollers, s \in Signals : SignalCaught(p, s)
    \/ \E p \in Pollers, s \in Signals : SignalDefault(p, s)
    \/ \E p \in Pollers : SigLookup(p)
    \/ \E p \in Pollers : SigReceive(p)
    \/ \E p \in Pollers, rset \in SUBSET Fds : SelectEvents(p, rset)
    \/ \E p \in Pollers : SelectNone(p)
    \/ \E p \in Pollers, w \in SignalWatchers : HandlerDeregisterSignal(p, w)
    \/ \E p \in Pollers : HandlerGetAttnLock(p)
    \/ \E p \in Pollers : HandlerIssueDeleteLock(p)
    \/ \E p \in Pollers : HandlerIssueDelete(p)
    \/ \E p \in Pollers : HandlerReleaseLock(p)

HandlerSpec == Init /\ [][HandlerNext]_vars

\* the program of Spec when memory can run out inside add_fd_watch
FailNext ==
    \/ Next
    \/ \E w \in FdWatchers : RegisterFdFails(w)

FailSpec == Init /\ [][FailNext]_vars

\* the lock protocol alone: threads that call run() and deregisterSignal()
\* while no event arrives
LockNext ==
    \/ \E w \in SignalWatchers : RegisterSignal(w)
    \/ \E p \in Pollers : RunCall(p)
    \/ \E p \in Pollers : ProcessEventsBegin(p)
    \/ \E p \in Pollers : GetPollwaitLock(p)
    \/ \E t \in Threads : WaitHead(t)
    \/ \E t \in Threads : ReleaseLock(t)
    \/ \E p \in Pollers : PullEvents(p)
    \/ \E p \in Pollers : SelectNone(p)
    \/ \E m \in Mutators : DeregisterSignal(m)
    \/ \E m \in Mutators : GetAttnLock(m)
    \/ \E m \in Mutators : IssueDeleteLock(m)
    \/ \E m \in Mutators : IssueDelete(m)

LockSpec == Init /\ [][LockNext]_vars

\* ------------------------------------------------------------------- claims
\* threads between a returned getAttnLock / getPollwaitLock and the end of
\* their releaseLock
PollerHeld == {"pull", "pselect", "siglookup", "sigrecv", "release"}
MutatorHeld == {"issue", "issuelk", "release"}
Holders ==
    {p \in Pollers : pc[p] \in PollerHeld}
        \cup {m \in Mutators : pc[m] \in MutatorHeld}

\* pollers inside the backend's pull_events
InPullEvents == {p \in Pollers : pc[p] \in {"pselect", "siglookup", "sigrecv"}}

\* pollers whose thread is inside a handler (gotSignal / gotEvent) of w
InHandler(w) == {p \in Pollers : pc[p] = "handler" /\ pqueue[p] = w}

\* a handler invocation starts in this step, on poller p
HandlerStarts(p) == pc[p] /= "handler" /\ pc'[p] = "handler"

\* mutators whose deregisterSignal has returned
Returned == {m \in Mutators : pc[m] = "done"}

\* C1: at most one thread is between a returned getAttnLock/getPollwaitLock
\* and its releaseLock, that thread's node is the head of the attention
\* queue, and no poller is inside pull_events while a mutator holds the lock.
C1_MutualExclusion ==
    ~crashed =>
        /\ Cardinality(Holders) <= 1
        /\ \A t \in Holders : getHead(attn_waitqueue) = t
        /\ (Holders \cap Mutators /= {}) => InPullEvents = {}

\* C2: no handler invocation of W starts after deregister(W) has returned.
C2_RemovalFinality ==
    [][\A p \in Pollers : HandlerStarts(p) =>
          \A m \in Returned : callBack(m) /= pqueue'[p]]_vars

\* C3: watchRemoved runs at most once on a deregistered watcher.
C3_RemovedOnce ==
    \A w \in Watchers : reg[w] = "dereg" => removed[w] <= 1

\* C4: at most one handler invocation of a watcher is executing.
C4_NoDoubleDispatch ==
    \A w \in Watchers : Cardinality(InHandler(w)) <= 1

\* C5: a watcher on which watchRemoved has been invoked has no handler
\* executing and is not dereferenced by processEvents any more.
C5_NoUseAfterRemoved ==
    \A p \in Pollers :
        pc[p] \in {"handler", "fin", "adv"} => removed[pqueue[p]] = 0

\* C6: at most one thread is inside pull_events.
C6_OnePoller == Cardinality(InPullEvents) <= 1

\* C7: a poller that waited is admitted only when no mutator is in the
\* attention queue (has queued its node and not yet released).
C7_MutatorPriority ==
    [][\A p \in Pollers : (pc[p] = "wait" /\ pc'[p] = "pull") =>
          \A m \in Mutators : pc[m] \notin {"wait", "issue", "issuelk", "release"}]_vars

\* C9: while a deregistration that started during a blocked poll is still
\* going on, no event batch starts to be dispatched.
C9_DeregisterBeforeBatch ==
    [][(\E m \in Mutators :
           poll_at_start[m]
           /\ pc[m] \in {"getattn", "wait", "issue", "issuelk"})
          => \A p \in Pollers : ~(pc[p] = "run" /\ pc'[p] = "handler")]_vars

\* ----------------------------------------------------------------- fairness
\* the steps thread t takes on its own once it has called run() or
\* deregisterSignal; SelectNone stands for "the holder's pselect returns"
ThreadStep(t) ==
    \/ WaitHead(t)
    \/ ReleaseLock(t)
    \/ /\ t \in Pollers
       /\ \/ RunCall(t)
          \/ ProcessEventsBegin(t)
          \/ \E r \in Rearm : HandlerReturn(t, r)
          \/ ProcessEventsRearm(t)
          \/ ProcessEventsAdvance(t)
          \/ GetPollwaitLock(t)
          \/ PullEvents(t)
          \/ SigLookup(t)
          \/ SigReceive(t)
          \/ SelectNone(t)
    \/ /\ t \in Mutators
       /\ \/ GetAttnLock(t)
          \/ IssueDeleteLock(t)
          \/ IssueDelete(t)

\* every thread keeps running, every lock holder gets to its releaseLock
FairSpec == Spec /\ \A t \in Threads : WF_vars(ThreadStep(t))

\* C8: every thread that waits in getAttnLock / getPollwaitLock eventually
\* acquires the lock, unless the process has been killed.
C8_LockLiveness ==
    \A t \in Threads :
        (pc[t] = "wait") ~> (pc[t] \in {"pull", "issue"} \/ crashed)

\* C10 as claimed: run is an endless loop, once called it never returns.
C10_RunNeverReturns ==
    [][\A p \in Pollers : pc[p] /= "idle" => pc'[p] /= "idle"]_vars

\* C10 as amended: run returns exactly when a processEvents call has returned
\* true; after a call that returned false, and only then, it takes the
\* poll-wait lock, and it calls pull_events only with that lock taken; after
\* releaseLock it calls processEvents again.
C10_RunUntilDispatch ==
    [][\A p \in Pollers :
          /\ (pc[p] /= "idle" /\ pc'[p] = "idle")
                => (pc[p] \in {"run", "adv"} /\ ret_active'[p])
          /\ (pc[p] /= "getpoll" /\ pc'[p] = "getpoll")
                => (pc[p] \in {"run", "adv"} /\ ~ret_active'[p])
          /\ (pc[p] \in {"run", "adv"} /\ pc'[p] \notin {"run", "adv"})
                => pc'[p] \in {"handler", "hung", "idle", "getpoll"}
          /\ (pc[p] /= "pull" /\ pc'[p] = "pull")
                => pc[p] \in {"getpoll", "wait"}
          /\ (pc[p] /= "run" /\ pc'[p] = "run")
                => pc[p] \in {"idle", "release"}]_vars

\* run has returned to its caller after a processEvents call that returned
\* true
C10_Witness == \E p \in Pollers : pc[p] = "idle" /\ ret_active[p]

\* ---------------------------------------------------------------- rearming
\* the backend registration of w is enabled: its fd is in read_set, or its
\* signal is prepared, unblocked for pselect and has w as userdata
Armed(w) ==
    IF watchType(w) = "FD" THEN watch_fd(w) \in read_set
    ELSE IF watchType(w) = "SIGNAL"
    THEN /\ get_signo(w) \notin active_sigmask
         /\ get_signo(w) \in prepared
         /\ sig_userdata[get_signo(w)] = w
    ELSE w \in child_watch

\* poller p has, in this step, run the critical section after the handler of
\* w with rearmType r
Rearmed(p, w, r) ==
    /\ pc[p] = "fin" /\ pc'[p] = "adv"
    /\ pqueue[p] = w /\ rearmType'[p] = r

\* poller p is past the critical section after the handler of w, which it
\* ran with rearmType r
AfterRearm(p, w, r) == pc[p] = "adv" /\ pqueue[p] = w /\ rearmType[p] = r

\* pselect returns 0 or -1 although every fd is ready: only when its copy of
\* read_set has no fd
SelectInterrupted(p) == read_set_c[p] = {} /\ SelectNone(p)

\* the steps thread t takes on its own when every armed source is ready and
\* stays ready: pselect returns with an fd of its copy, is left by a signal
\* that its mask lets through, or, called with the zero timeout that follows
\* a signal (was_signalled), returns at once
ReadyStep(t) ==
    \/ WaitHead(t)
    \/ ReleaseLock(t)
    \/ /\ t \in Pollers
       /\ \/ RunCall(t)
          \/ ProcessEventsBegin(t)
          \/ \E r \in Rearm : HandlerReturn(t, r)
          \/ ProcessEventsRearm(t)
          \/ ProcessEventsAdvance(t)
          \/ GetPollwaitLock(t)
          \/ PullEvents(t)
          \/ \E s \in Signals : SignalCaught(t, s)
          \/ SigLookup(t)
          \/ SigReceive(t)
          \/ \E rset \in SUBSET Fds : SelectEvents(t, rset)
          \/ was_signalled[t] /\ SelectInterrupted(t)
    \/ /\ t \in Mutators
       /\ \/ GetAttnLock(t)
          \/ IssueDeleteLock(t)
          \/ IssueDelete(t)

\* the program of Spec with every source ready whenever it is looked at
ReadyNext ==
    \/ \E w \in SignalWatchers : RegisterSignal(w)
    \/ \E w \in FdWatchers : RegisterFd(w)
    \/ \E p \in Pollers : RunCall(p)
    \/ \E p \in Pollers : ProcessEventsBegin(p)
    \/ \E p \in Pollers, r \in Rearm : HandlerReturn(p, r)
    \/ \E p \in Pollers : ProcessEventsRearm(p)
    \/ \E p \in Pollers : ProcessEventsAdvance(p)
    \/ \E p \in Pollers : GetPollwaitLock(p)
    \/ \E t \in Threads : WaitHead(t)
    \/ \E t \in Threads : ReleaseLock(t)
    \/ \E p \in Pollers : PullEvents(p)
    \/ \E p \in Pollers, s \in Signals : SignalCaught(p, s)
    \/ \E p \in Pollers, s \in Signals : SignalDefault(p, s)
    \/ \E p \in Pollers : SigLookup(p)
    \/ \E p \in Pollers : SigReceive(p)
    \/ \E p \in Pollers, rset \in SUBSET Fds : SelectEvents(p, rset)
    \/ \E p \in Pollers : SelectInterrupted(p)
    \/ \E m \in Mutators : DeregisterSignal(m)
    \/ \E m \in Mutators : GetAttnLock(m)
    \/ \E m \in Mutators : IssueDeleteLock(m)
    \/ \E m \in Mutators : IssueDelete(m)

\* every thread keeps running and every armed source is ready
ReadySpec ==
    Init /\ [][ReadyNext]_vars /\ \A t \in Threads : WF_vars(ReadyStep(t))

\* C11: when the handler of an fd or signal watcher that is not being
\* deregistered has returned REARM, the critical section after the handler leaves the
\* backend registration enabled, and, the source being ready, the handler is
\* invoked again (unless the watcher is deregistered, the process is killed
\* or a dispatcher is stuck in a cycle of the queue).
C11_RearmRedelivers ==
    /\ [][\A p \in Pollers, w \in SignalWatchers \cup FdWatchers :
             (Rearmed(p, w, "REARM") /\ reg[w] = "reg") => Armed(w)']_vars
    /\ \A w \in SignalWatchers \cup FdWatchers :
          (\E p \in Pollers : AfterRearm(p, w, "REARM"))
              ~> \/ InHandler(w) /= {}
                 \/ reg[w] /= "reg" \/ crashed
                 \/ \E p \in Pollers : pc[p] = "hung"

\* w is installed, not being dispatched, and its backend registration is
\* left disabled
Disarmed(w) ==
    /\ reg[w] = "reg" /\ removed[w] = 0
    /\ ~active[w] /\ ~Armed(w)

\* C12: when the handler of a registered watcher has returned DISARM, the
\* critical section after the handler leaves the backend registration
\* disabled and does not call watchRemoved; and as long as the watcher is not
\* deregistered, a disarmed watcher stays disarmed: it is not delivered, not
\* removed and no handler invocation of it starts.
C12_DisarmStays ==
    [][\A w \in SignalWatchers \cup FdWatchers :
          /\ (\E p \in Pollers : Rearmed(p, w, "DISARM") /\ reg[w] = "reg")
                => (~Armed(w)' /\ removed'[w] = removed[w])
          /\ (Disarmed(w) /\ reg'[w] = "reg")
                => /\ Disarmed(w)'
                   /\ \A p \in Pollers :
                         HandlerStarts(p) => pqueue'[p] /= w]_vars

\* C13: when the handler of a registered watcher has returned REMOVE, the
\* critical section after the handler disables the backend registration and
\* calls watchRemoved once; and no handler invocation starts on a registered
\* watcher on which watchRemoved has been called.
C13_RemoveIsFinal ==
    [][\A w \in SignalWatchers \cup FdWatchers :
          /\ (\E p \in Pollers : Rearmed(p, w, "REMOVE") /\ reg[w] = "reg")
                => /\ ~Armed(w)'
                   /\ removed'[w] = watchRemoved(removed, w)[w]
          /\ (reg[w] = "reg" /\ removed[w] >= 1)
                => \A p \in Pollers : HandlerStarts(p) => pqueue'[p] /= w]_vars

\* ---------------------------------------------------------- child watchers
\* every thread keeps running, in the program of ChildSpec
ChildFairSpec == ChildSpec /\ \A t \in Threads : WF_vars(ThreadStep(t))

\* pollers that are in processEvents with w as pqueue
Dispatching(w) ==
    {p \in Pollers : pc[p] \in {"handler", "fin", "adv"} /\ pqueue[p] = w}

\* C14: gotTermStat of a child watcher is invoked at most once (an
\* invocation starts only when none has started before); watchRemoved is
\* called on a child watcher only by the critical section that follows its
\* gotTermStat, which calls it exactly once; and once gotTermStat is running
\* that call is reached (unless the process is killed or a dispatcher is
\* stuck in a cycle of the queue).
C14_ChildImplicitRemove ==
    /\ [](\A c \in ChildWatchers : removed[c] <= 1)
    /\ [][\A c \in ChildWatchers :
             /\ \A p \in Pollers :
                   (HandlerStarts(p) /\ pqueue'[p] = c)
                       => (removed[c] = 0 /\ Dispatching(c) = {})
             /\ removed'[c] /= removed[c]
                   => \E p \in Pollers : Rearmed(p, c, "REMOVE")
             /\ \A p \in Pollers :
                   (pc[p] = "fin" /\ pqueue[p] = c /\ pc'[p] = "adv")
                       => (removed[c] = 0 /\ removed'[c] = 1)]_vars
    /\ \A c \in ChildWatchers :
          (InHandler(c) /= {})
              ~> (removed[c] = 1 \/ crashed
                    \/ \E p \in Pollers : pc[p] = "hung")

\* ------------------------------------------------------------- the queue
\* the watchers linked from q through next, at most fuel of them
RECURSIVE chain(_, _)
chain(q, fuel) ==
    IF q = NULL \/ fuel = 0 THEN {}
    ELSE {q} \cup chain(next[q], fuel - 1)

\* the walk from q through next reaches nullptr
RECURSIVE acyclic(_, _)
acyclic(q, fuel) ==
    IF q = NULL THEN TRUE
    ELSE IF fuel = 0 THEN FALSE
    ELSE acyclic(next[q], fuel - 1)

\* the watchers in the pending queue
PendingQueue == chain(first, Cardinality(Watchers))

\* the watchers poller p has still to go through in its processEvents: the
\* one whose handler it runs and the ones linked behind it
Batch(p) ==
    IF pc[p] \in {"handler", "fin"}
    THEN chain(pqueue[p], Cardinality(Watchers))
    ELSE IF pc[p] = "adv"
    THEN chain(next[pqueue[p]], Cardinality(Watchers))
    ELSE {}

\* C15: the next links from first form no cycle (a watcher is at most once in
\* the pending queue), and no watcher is at once in the pending queue and in
\* a batch being dispatched, or in the batches of two dispatchers.
C15_EnqueuedOnce ==
    /\ acyclic(first, Cardinality(Watchers))
    /\ \A p \in Pollers :
          /\ pc[p] \in {"handler", "fin"}
                => acyclic(pqueue[p], Cardinality(Watchers))
          /\ Batch(p) \cap PendingQueue = {}
          /\ \A q \in Pollers \ {p} : Batch(p) \cap Batch(q) = {}

\* ------------------------------------------------------- deferred removal
\* C16: on a watcher whose deleteme issueDelete has set, watchRemoved is
\* called at most once, no handler invocation starts once it has been
\* called, and it is called eventually while the threads keep running
\* (unless the process is killed or a dispatcher is stuck in a cycle of the
\* queue).
C16_DeferredRemoval ==
    /\ [](\A w \in Watchers : deleteme[w] => removed[w] <= 1)
    /\ [][\A w \in Watchers, p \in Pollers :
             (deleteme[w] /\ HandlerStarts(p) /\ pqueue'[p] = w)
                 => removed[w] = 0]_vars
    /\ \A w \in Watchers :
          deleteme[w] ~> (removed[w] >= 1 \/ crashed
                            \/ \E p \in Pollers : pc[p] = "hung")

\* ------------------------------------------------------------ the queues
\* C17: whenever the wait queue has a head, or a poller waits in
\* getPollwaitLock, the attention queue has a head.
C17_WaitImpliesAttn ==
    (getHead(wait_waitqueue) /= NULL \/ \E p \in Pollers : pc[p] = "wait")
        => getHead(attn_waitqueue) /= NULL

\* a poller that queued itself on the wait queue has been moved to the head
\* of the attention queue by a releaseLock
C17_Witness ==
    \E p \in Pollers :
        /\ pc[p] = "wait"
        /\ getHead(wait_waitqueue) = p /\ getHead(attn_waitqueue) = p

\* ------------------------------------------------------------- registration
\* C18: a step that changes the backend registration on behalf of register*
\* or deregisterSignal is taken by a thread that is between its returned
\* getAttnLock and its releaseLock, so that it overlaps no pull_events: no
\* such step is taken, by a thread that is not there, while a poller is
\* inside pull_events.
C18_RegistrationUnderAttnLock ==
    [][reg' /= reg =>
          \/ \E m \in Mutators : pc[m] \in MutatorHeld /\ pc'[m] /= pc[m]
          \/ InPullEvents = {}]_vars

\* ---------------------------------------------------------- dispatch lock
\* C19: the queue head, the next links and the active and deleteme flags
\* are written only by a thread that holds EventDispatch::lock: while a
\* thread holds the lock, only a step of that thread changes them.
C19_MutationUnderLock ==
    [][(<<first, next, active, deleteme>>' /= <<first, next, active, deleteme>>)
          => (lock = NULL \/ pc'[lock] /= pc[lock])]_vars

\* ----------------------------------------------------------- visibility
\* C20: when the watch of a registered fd watcher is enabled (registerFd or
\* a rearm has returned) while a thread is polling inside pselect, the fd,
\* being ready, is delivered: process_events reports it and clears it from
\* read_set (unless the process is killed or a dispatcher is stuck in a cycle
\* of the queue).
C20_RegistrationVisible ==
    \A w \in FdWatchers :
        (reg[w] = "reg" /\ Armed(w) /\ \E p \in Pollers : pc[p] = "pselect")
            ~> (~Armed(w) \/ crashed \/ \E p \in Pollers : pc[p] = "hung")

\* ---------------------------------------------------- failed registration
\* C21: a registration that fails leaves the backend's registration state
\* as it was, and no fd is in read_set without a userdata entry.
C21_FailedRegistrationClean ==
    /\ [][\A w \in FdWatchers :
             (reg[w] = "new" /\ reg'[w] = "failed")
                 => (read_set' = read_set /\ rd_udata' = rd_udata)]_vars
    /\ [](\A f \in read_set : rd_udata[f] /= NULL)

\* ------------------------------------------------- the pass of processEvents
\* C22: when the first loop of processEvents has walked the detached list,
\* every detached watcher whose deleteme is clear is marked active and is in
\* the list the handlers are invoked from, and every detached watcher whose
\* deleteme is set has had watchRemoved called and is not in that list.
C22_ExciseKeepsOthers ==
    [][\A p \in Pollers :
          (pc[p] = "run" /\ pc'[p] \notin {"run", "hung"})
              => \A w \in PendingQueue :
                    IF deleteme[w]
                    THEN /\ removed'[w] >= 1
                         /\ w \notin chain(pqueue[p], Cardinality(Watchers))'
                    ELSE /\ active'[w]
                         /\ w \in chain(pqueue[p], Cardinality(Watchers))']_vars

\* C23: processEvents returns true exactly when it invokes at least one
\* handler (the list it dispatches from is not empty after the first loop),
\* and false when the pending list held no watcher with deleteme clear.
C23_ReturnsTrueIffHandlerRan ==
    [][\A p \in Pollers :
          (pc[p] = "run" /\ pc'[p] \notin {"run", "hung"})
              => /\ ret_active'[p] <=> pqueue'[p] /= NULL
                 /\ (\A w \in PendingQueue : deleteme[w])
                       => ~ret_active'[p]]_vars

\* ------------------------------------------------------------- getAttnLock
\* C24: getAttnLock returns without waiting (its node is the head right
\* after queueing) only when the attention queue was empty; called while
\* another thread holds the lock it goes to the wait loop.
C24_AttnLockWaits ==
    [][\A m \in Mutators :
          pc[m] = "getattn" /\ pc'[m] /= "getattn"
              => IF getHead(attn_waitqueue) = NULL
                 THEN pc'[m] = "issue" ELSE pc'[m] = "wait"]_vars

\* ------------------------------------------------------- queue membership
\* the nodes linked from node h by the next pointers of the wait nodes
RECURSIVE linked(_, _)
linked(h, fuel) ==
    IF h = NULL \/ h = CRASH \/ fuel = 0 THEN {}
    ELSE {h} \cup linked(node_next[h], fuel - 1)

\* the nodes a waitqueue holds: those reached from its head
nodes(q) == linked(getHead(q), Cardinality(Threads))

\* C25: no wait node is in both queues at once, and when releaseLock(node)
\* has returned neither queue holds that node.
C25_OneQueuePerNode ==
    /\ [](~crashed =>
            nodes(attn_waitqueue) \cap nodes(wait_waitqueue) = {})
    /\ [][\A t \in Threads :
             (pc[t] = "release" /\ pc'[t] /= "release" /\ ~crashed')
                 => t \notin nodes(attn_waitqueue)' \cup nodes(wait_waitqueue)']_vars

\* ------------------------------------------------------- one-shot delivery
\* C26: a source that pull_events delivers is armed in the backend when it is
\* delivered (an fd is in read_set, a signal is outside active_sigmask: it
\* has been armed and neither delivered nor removed since) and is disarmed
\* when the delivery is done.
C26_OneShotDelivery ==
    [][\A p \in Pollers :
          /\ \A rset \in SUBSET Fds :
                SelectEvents(p, rset)
                    => rset \subseteq read_set /\ rset \cap read_set' = {}
          /\ (SigReceive(p) /\ udata[p] /= NULL)
                => /\ siginfo_cap \notin active_sigmask
                   /\ siginfo_cap \in active_sigmask']_vars

\* ------------------------------------------------------ locks in a handler
\* a step of poller p in HandlerSpec that its own code takes unless blocked
HandlerThreadStep(p) ==
    \/ ThreadStep(p)
    \/ HandlerGetAttnLock(p)
    \/ HandlerIssueDeleteLock(p)
    \/ HandlerIssueDelete(p)
    \/ HandlerReleaseLock(p)

\* every poller keeps running
HandlerFairSpec ==
    HandlerSpec /\ \A p \in Pollers : WF_vars(HandlerThreadStep(p))

Quiet(w) ==
    /\ InHandler(w) = {}
    /\ w \notin PendingQueue
    /\ \A q \in Pollers : w \notin Batch(q)

\* C28: receiveSignal / receiveFdEvent, which write siginfo / event_flags of
\* a watcher, are called only for a watcher that is neither queued nor being
\* dispatched; in particular not while its handler is executing.
C28_PayloadStable ==
    [][\A p \in Pollers :
          /\ (SigReceive(p) /\ udata[p] /= NULL) => Quiet(udata[p])
          /\ \A rset \in SUBSET Fds :
                SelectEvents(p, rset)
                    => \A i \in rset : Quiet(rd_udata[i])]_vars

====
